---- MODULE Spec2Model ----
(***************************************************************************)
(* The tool-calling interaction loop of the weather assistant              *)
(* (src/src/assistant.py), with the message and result types of            *)
(* src/src/models.py and the outcomes of src/src/weather_service.py.       *)
(*                                                                         *)
(* One session of one WeatherAssistant: process_message appends the user   *)
(* message and runs _run_interaction_loop; the loop requests a stream,     *)
(* drains it chunk by chunk, and either appends the final text or appends  *)
(* the assistant tool-call message, executes the first tool call (a        *)
(* fan-out of per-city lookups joined by asyncio.gather) and appends the   *)
(* tool result.  The environment (the LLM's streams, the Open-Meteo        *)
(* answers, timeouts and failures) is nondeterministic.                    *)
(***************************************************************************)
EXTENDS Integers, Sequences, FiniteSets, TLC

VARIABLES
    conversation_history,  \* self.conversation_history: the transcript
    pc,                    \* where the loop is: idle, awaiting, streaming, fanout
    plan,                  \* the streams the LLM will answer the next requests with
    stream,                \* the chunks of the open stream not yet delivered
    collected_content,     \* _process_stream: collected_content
    tool_calls_buffer,     \* _process_stream: tool_calls_buffer, in insertion order
    printed,               \* what _process_stream printed for the open stream
    drained,               \* the chunks delivered by the open (or last) stream
    call,                  \* the tool call being executed: call_id and cities
    tasks,                 \* the per-city pipelines handed to asyncio.gather
    completed,             \* indices of tasks, in the order they finished
    city_results,          \* the last list _fetch_weather_for_cities returned
    parsed,                \* the last result of _parse_tool_arguments
    sent,                  \* the messages of the last request given to the client
    turn,                  \* bookkeeping of the current process_message call
    outcome,               \* how the last step of the loop ended
    lookups,               \* number of Open-Meteo requests issued so far
    session                \* run_cli: where the CLI session is, and the close() calls made

vars == <<conversation_history, pc, plan, stream, collected_content,
          tool_calls_buffer, printed, drained, call, tasks, completed,
          city_results, parsed, sent, turn, outcome, lookups, session>>

\* the fields and locals of the assistant, which the CLI's own steps leave alone
assistant_vars ==
    <<conversation_history, pc, plan, stream, collected_content,
      tool_calls_buffer, printed, drained, call, tasks, completed,
      city_results, parsed, sent, turn, outcome, lookups>>

(***************************************************************************)
(* Bounds of the exploration.                                              *)
(***************************************************************************)
MaxCalls == 2   \* process_message calls in one session
MaxFrags == 3   \* chunks of a freely generated stream
MaxTurns == 3   \* requests explored in one process_message call

(***************************************************************************)
(* Python values.  Optional[x] is <<>> for None and <<x>> for x.  A JSON   *)
(* or literal value is a record tagged with its Python type.               *)
(***************************************************************************)
NoneOpt == <<>>
Some(x) == <<x>>

PyNone == [t |-> "NoneType"]
PyBool(b) == [t |-> "bool", b |-> b]
PyInt(n) == [t |-> "int", n |-> n]
PyFloat(i, f) == [t |-> "float", i |-> i, f |-> f]   \* i.f, one decimal digit
PyStr(s) == [t |-> "str", s |-> s]
PyList(xs) == [t |-> "list", items |-> xs]
PyDict(kvs) == [t |-> "dict", items |-> kvs]   \* kvs: sequence of [k, v], keys distinct
KV(k, v) == [k |-> k, v |-> v]

\* bool(v)
Truthy(v) ==
    CASE v.t = "NoneType" -> FALSE
      [] v.t = "bool" -> v.b
      [] v.t = "int" -> v.n # 0
      [] v.t = "float" -> v.i # 0 \/ v.f # 0
      [] v.t = "str" -> v.s # ""
      [] OTHER -> Len(v.items) > 0

\* str(v) of a number, as an f-string prints it
PyNumStr(v) ==
    IF v.t = "int" THEN ToString(v.n)
    ELSE ToString(v.i) \o "." \o ToString(v.f)

DictHas(d, k) == \E i \in 1..Len(d.items) : d.items[i].k = k
DictGet(d, k, default) ==
    IF DictHas(d, k)
    THEN d.items[CHOOSE i \in 1..Len(d.items) : d.items[i].k = k].v
    ELSE default
\* d[k] = v
DictSet(d, k, v) ==
    IF DictHas(d, k)
    THEN PyDict([i \in 1..Len(d.items) |->
                    IF d.items[i].k = k THEN KV(k, v) ELSE d.items[i]])
    ELSE PyDict(Append(d.items, KV(k, v)))

(***************************************************************************)
(* json.loads and ast.literal_eval, on the texts this model feeds them.    *)
(* JsonTable lists every text of the model that is valid JSON with the     *)
(* value json.loads returns for it; every other text the model builds      *)
(* (the empty text, truncated objects, single-quoted literals, bare words, *)
(* strings of braces other than "{}") is not JSON and raises               *)
(* json.JSONDecodeError.                                                   *)
(***************************************************************************)
JsonTable ==
    ("{}" :> PyDict(<<>>))
 @@ ("{\"cities\": [\"Paris\", \"Tokyo\"]}" :>
        PyDict(<<KV("cities", PyList(<<PyStr("Paris"), PyStr("Tokyo")>>))>>))
 @@ ("{\"cities\": [\"X\", \"Y\", \"Z\"]}" :>
        PyDict(<<KV("cities", PyList(<<PyStr("X"), PyStr("Y"), PyStr("Z")>>))>>))
 @@ ("{\"cities\": [\"Paris\", \"Paris\"]}" :>
        PyDict(<<KV("cities", PyList(<<PyStr("Paris"), PyStr("Paris")>>))>>))
 @@ ("{\"cities\": [\"Qwxyzland\"]}" :>
        PyDict(<<KV("cities", PyList(<<PyStr("Qwxyzland")>>))>>))
 @@ ("{\"cities\": []}" :> PyDict(<<KV("cities", PyList(<<>>))>>))
 @@ ("{\"cities\": null}" :> PyDict(<<KV("cities", PyNone)>>))
 @@ ("{\"city\": \"Paris\"}" :> PyDict(<<KV("city", PyStr("Paris"))>>))
 @@ ("{\"cities\": \"[\\\"Paris\\\", \\\"Tokyo\\\"]\"}" :>
        PyDict(<<KV("cities", PyStr("[\"Paris\", \"Tokyo\"]"))>>))
 @@ ("{\"cities\": \"['Paris']\"}" :> PyDict(<<KV("cities", PyStr("['Paris']"))>>))
 @@ ("{\"cities\": \"Paris\"}" :> PyDict(<<KV("cities", PyStr("Paris"))>>))
 @@ ("{\"cities\": \"'Paris'\"}" :> PyDict(<<KV("cities", PyStr("'Paris'"))>>))
 @@ ("{\"cities\": \"[]\"}" :> PyDict(<<KV("cities", PyStr("[]"))>>))
 @@ ("{\"cities\": \"\"}" :> PyDict(<<KV("cities", PyStr(""))>>))
 @@ ("{\"cities\": \"5\"}" :> PyDict(<<KV("cities", PyStr("5"))>>))
 @@ ("{\"cities\": \"None\"}" :> PyDict(<<KV("cities", PyStr("None"))>>))
 @@ ("{\"cities\": \"{[1]: 2}\"}" :> PyDict(<<KV("cities", PyStr("{[1]: 2}"))>>))
 @@ ("5" :> PyInt(5))
 @@ ("null" :> PyNone)
 @@ ("\"cities\"" :> PyStr("cities"))
 @@ ("\"Paris\"" :> PyStr("Paris"))
 @@ ("[\"cities\"]" :> PyList(<<PyStr("cities")>>))
 @@ ("[\"Paris\"]" :> PyList(<<PyStr("Paris")>>))
 @@ ("[\"Paris\", \"Tokyo\"]" :> PyList(<<PyStr("Paris"), PyStr("Tokyo")>>))
 @@ ("[]" :> PyList(<<>>))

\* json.loads(text): the value, or err = "JSONDecodeError"
JsonLoads(text) ==
    IF text \in DOMAIN JsonTable
    THEN [err |-> "", v |-> JsonTable[text]]
    ELSE [err |-> "JSONDecodeError", v |-> PyNone]

\* The texts json.loads rejects that are Python literals, with their value.
LiteralTable ==
    ("['Paris']" :> PyList(<<PyStr("Paris")>>))
 @@ ("'Paris'" :> PyStr("Paris"))
 @@ ("None" :> PyNone)

\* ast.literal_eval(text) for a text json.loads rejected: the value, or the
\* exception raised ("Paris" is a Name node: ValueError; "" does not parse:
\* SyntaxError; "{[1]: 2}" builds a dict with a list key: TypeError).
LiteralEval(text) ==
    CASE text \in DOMAIN LiteralTable -> [err |-> "", v |-> LiteralTable[text]]
      [] text = "" -> [err |-> "SyntaxError", v |-> PyNone]
      [] text = "{[1]: 2}" -> [err |-> "TypeError", v |-> PyNone]
      [] OTHER -> [err |-> "ValueError", v |-> PyNone]

\* `"cities" in s` for a str s: of the strings of this model only "cities"
\* has "cities" as a substring.
HasSubstringCities(s) == s = "cities"

\* `key in container`: b, or err = "TypeError" when container is not iterable
PyContains(container, key) ==
    CASE container.t = "dict" -> [err |-> "", b |-> DictHas(container, key)]
      [] container.t = "list" ->
            [err |-> "", b |-> \E i \in 1..Len(container.items) :
                                    container.items[i] = PyStr(key)]
      [] container.t = "str" -> [err |-> "", b |-> HasSubstringCities(container.s)]
      [] OTHER -> [err |-> "TypeError", b |-> FALSE]

\* `container[key]` for a str key: only a dict can be indexed with it
PyGetItem(container, key) ==
    IF container.t = "dict" /\ DictHas(container, key)
    THEN [err |-> "", v |-> DictGet(container, key, PyNone)]
    ELSE [err |-> IF container.t = "dict" THEN "KeyError" ELSE "TypeError",
          v |-> PyNone]

(***************************************************************************)
(* ParsedToolArguments (models.py) and _parse_tool_arguments.  A result    *)
(* with err # "" stands for the exception leaving the function.            *)
(***************************************************************************)
ParsedToolArguments(cities, raw_arguments) ==
    [err |-> "", cities |-> cities, raw_arguments |-> raw_arguments]
ParseRaised(e) == [err |-> e, cities |-> PyList(<<>>), raw_arguments |-> PyNone]

\* lines 251-264: the value given to parsed_args.cities for a str `cities`
CitiesFromString(s) ==
    LET j == JsonLoads(s)
        l == LiteralEval(s)
    IN  IF j.err = "" THEN [err |-> "", v |-> j.v]
        ELSE IF l.err = ""
             THEN [err |-> "",
                   v |-> IF l.v.t = "list" THEN l.v
                         ELSE IF Truthy(l.v) THEN PyList(<<l.v>>)
                         ELSE PyList(<<>>)]
        ELSE IF l.err \in {"ValueError", "SyntaxError"}
             THEN [err |-> "", v |-> PyList(<<PyStr(s)>>)]
        ELSE [err |-> l.err, v |-> PyNone]

ParseToolArguments(arguments_str) ==
    LET j == JsonLoads(arguments_str)
        arguments == IF j.err = "" THEN j.v ELSE PyDict(<<>>)
        has == PyContains(arguments, "cities")
        item == PyGetItem(arguments, "cities")
    IN  IF has.err # "" THEN ParseRaised(has.err)
        ELSE IF ~has.b THEN ParsedToolArguments(PyList(<<>>), arguments)
        ELSE IF item.err # "" THEN ParseRaised(item.err)
        ELSE IF item.v.t = "str"
             THEN LET c == CitiesFromString(item.v.s)
                  IN  IF c.err # "" THEN ParseRaised(c.err)
                      ELSE ParsedToolArguments(c.v, arguments)
        ELSE IF item.v.t = "list" THEN ParsedToolArguments(item.v, arguments)
        ELSE ParsedToolArguments(PyList(<<>>), arguments)

\* ParsedToolArguments.to_dict: raw_arguments.copy(), then cities put in when truthy
ParsedToDict(p) ==
    IF p.raw_arguments.t \notin {"dict", "list"}
    THEN [err |-> "AttributeError", v |-> PyNone]
    ELSE IF ~Truthy(p.cities) THEN [err |-> "", v |-> p.raw_arguments]
    ELSE IF p.raw_arguments.t # "dict" THEN [err |-> "TypeError", v |-> PyNone]
    ELSE [err |-> "", v |-> DictSet(p.raw_arguments, "cities", p.cities)]

\* _validate_and_normalize_cities: arguments.get("cities", []), wrapped when not a list
ValidateAndNormalizeCities(arguments) ==
    IF arguments.t # "dict" THEN [err |-> "AttributeError", v |-> PyNone]
    ELSE LET cities == DictGet(arguments, "cities", PyList(<<>>))
         IN  [err |-> "",
              v |-> IF cities.t = "list" THEN cities
                    ELSE IF Truthy(cities) THEN PyList(<<cities>>)
                    ELSE PyList(<<>>)]

\* str(city) in an f-string, for the element types this model produces
CityStr(city) == IF city.t = "str" THEN city.s ELSE PyNumStr(city)

(***************************************************************************)
(* models.py: Message and its serialisation.                               *)
(***************************************************************************)
WEATHER_TOOL_NAME == "get_weather"
SYSTEM_PROMPT ==
    "You are a helpful weather assistant. You can check the weather f"
    \o "or any city. IMPORTANT: Only call the weather tool if the user e"
    \o "xplicitly asks for weather information or mentions a specific lo"
    \o "cation. If the user greets you (e.g., 'Hi', 'Hello') or asks gen"
    \o "eral questions, reply conversationally WITHOUT calling any tools"
    \o ".\n\nWhen providing weather information for multiple cities, forma"
    \o "t your response as follows:\n- Start with a brief introduction li"
    \o "ke 'Here's the current weather in each city:'\n- Use a bulleted l"
    \o "ist with markdown formatting: **City, Country**: detailed descri"
    \o "ption\n- For each city, provide a natural, conversational descrip"
    \o "tion including:\n  * Temperature and how it feels (apparent tempe"
    \o "rature)\n  * Humidity percentage\n  * Wind speed and direction if "
    \o "available\n  * Precipitation status\n- End up with your short opin"
    \o "ion about the weather in friendly format and ask if client want "
    \o "to know anything else\nAlways allow for follow-up questions and b"
    \o "e conversational.\n\nWhat you should NOT do:\n- Do not make up or i"
    \o "nvent weather data - only use information from the tool calls\n- "
    \o "Do not provide weather forecasts for future dates - only current"
    \o " weather\n- Do not use overly technical or scientific language - "
    \o "keep it conversational\n- Do not repeat the same information mult"
    \o "iple times\n- Do not provide weather information for cities that "
    \o "were not requested\n- Do not assume weather conditions without ac"
    \o "tual data from the tool\n- Do not provide info about Tool call in"
    \o " your response\n- Do NOT call the weather tool if the user messag"
    \o "e does not contain a location or a weather-related question."

Message(role, content, tool_calls, tool_call_id, name) ==
    [role |-> role, content |-> content, tool_calls |-> tool_calls,
     tool_call_id |-> tool_call_id, name |-> name]

\* Message.to_dict lines 83-89: the check that makes to_dict raise ValueError
MessageIsValid(m) ==
    m.role = "assistant" =>
        \/ (m.content # NoneOpt /\ m.content[1] # "")
        \/ (m.tool_calls # NoneOpt /\ Len(m.tool_calls[1]) > 0)

\* Message.to_dict lines 91-105: the dict holds a key for each field that is not None
MessageToDict(m) ==
    LET keys == {"role"} \cup {k \in {"content", "tool_calls", "tool_call_id", "name"} :
                                  m[k] # NoneOpt}
    IN  [k \in keys |-> IF k = "role" THEN m.role ELSE m[k][1]]

\* [msg.to_dict() for msg in self.conversation_history]
HistoryToDicts(h) ==
    IF \A i \in 1..Len(h) : MessageIsValid(h[i])
    THEN [err |-> "", v |-> [i \in 1..Len(h) |-> MessageToDict(h[i])]]
    ELSE [err |-> "ValueError", v |-> <<>>]

(***************************************************************************)
(* models.py: ToolInvocation, and the assembler of assistant.py.  The      *)
(* buffer is a Python dict: here the sequence of its entries in insertion  *)
(* order.  A piece that is None and a piece that is "" are both falsy and  *)
(* are both written "".                                                    *)
(***************************************************************************)
ToolInvocation(id, name, arguments) ==
    [id |-> id, function |-> [name |-> name, arguments |-> arguments]]

\* ToolInvocation.to_history_dict
ToHistoryDict(tc) ==
    [id |-> tc.id, type |-> "function",
     function |-> [name |-> tc.function.name, arguments |-> tc.function.arguments]]

BufferHas(buffer, idx) == \E i \in 1..Len(buffer) : buffer[i].idx = idx
BufferAt(buffer, idx) == buffer[CHOOSE i \in 1..Len(buffer) : buffer[i].idx = idx].inv

\* lines 159-168 for one fragment tc
AccumulateOne(buffer, tc) ==
    LET b1 == IF BufferHas(buffer, tc.index) THEN buffer
              ELSE Append(buffer, [idx |-> tc.index, inv |-> ToolInvocation("", "", "")])
    IN  [i \in 1..Len(b1) |->
            IF b1[i].idx # tc.index THEN b1[i]
            ELSE [idx |-> tc.index,
                  inv |-> ToolInvocation(
                      b1[i].inv.id \o tc.id,
                      b1[i].inv.function.name \o tc.name,
                      b1[i].inv.function.arguments \o tc.arguments)]]

\* _accumulate_tool_call_chunk: for tc in tool_calls_delta
RECURSIVE AccumulateToolCallChunk(_, _)
AccumulateToolCallChunk(tool_calls_delta, buffer) ==
    IF tool_calls_delta = <<>> THEN buffer
    ELSE AccumulateToolCallChunk(Tail(tool_calls_delta),
                                 AccumulateOne(buffer, Head(tool_calls_delta)))

\* sorted(tool_calls_buffer.keys())
RECURSIVE SortedKeys(_)
SortedKeys(keys) ==
    IF keys = {} THEN <<>>
    ELSE LET m == CHOOSE k \in keys : \A j \in keys : k <= j
         IN  <<m>> \o SortedKeys(keys \ {m})

BufferKeys(buffer) == {buffer[i].idx : i \in 1..Len(buffer)}

\* mutant: the invocations in the order their slots were first seen
ConvertInArrivalOrder(buffer) == [i \in 1..Len(buffer) |-> buffer[i].inv]

\* _convert_tool_calls_buffer
ConvertToolCallsBuffer(buffer) ==
    LET ks == SortedKeys(BufferKeys(buffer))
    IN  [i \in 1..Len(ks) |-> BufferAt(buffer, ks[i])]

(***************************************************************************)
(* The LLM's streams.  A chunk carries delta.content ("" when absent) and  *)
(* delta.tool_calls, a list of fragments (empty when absent).              *)
(***************************************************************************)
Frag(index, id, name, arguments) ==
    [index |-> index, id |-> id, name |-> name, arguments |-> arguments]
Chunk(content, tool_calls) == [content |-> content, tool_calls |-> tool_calls]
TextChunk(content) == Chunk(content, <<>>)
CallChunk(index, id, name, arguments) == Chunk("", <<Frag(index, id, name, arguments)>>)

\* a plain-text answer in two content fragments
StreamHello == <<TextChunk("Hello"), TextChunk("!")>>
\* an answer with no content fragment and no tool-call fragment
StreamEmpty == <<TextChunk("")>>
\* one get_weather call for two cities, split across three fragments
StreamParisTokyo ==
    <<CallChunk(0, "call_1", "get_weather", ""),
      CallChunk(0, "", "", "{\"cities\": [\"Par"),
      CallChunk(0, "", "", "is\", \"Tokyo\"]}")>>
\* one complete call in one fragment, for any function name and argument text
StreamCall(name, arguments) == <<CallChunk(0, "call_1", name, arguments)>>
\* two calls whose fragments arrive interleaved, slot 1 first, with some text
StreamTwoCalls ==
    <<Chunk("Let me check.", <<Frag(1, "call_b", "get_", "{\"cities\": ")>>),
      Chunk("", <<Frag(0, "call_a", "get_weather", "{\"cities\": [\"Paris\", "),
                  Frag(1, "", "time", "[]}")>>),
      CallChunk(0, "", "", "\"Paris\"]}")>>

\* The argument texts the LLM sends in a single-fragment get_weather call.
ArgumentTexts ==
    {"", "{", "{}", "5", "null", "\"cities\"", "\"Paris\"", "[\"cities\"]",
     "[\"Paris\"]", "{\"cities\": [\"Par",
     "{\"cities\": [\"X\", \"Y\", \"Z\"]}", "{\"cities\": [\"Paris\", \"Paris\"]}",
     "{\"cities\": [\"Qwxyzland\"]}", "{\"cities\": []}", "{\"cities\": null}",
     "{\"city\": \"Paris\"}",
     "{\"cities\": \"[\\\"Paris\\\", \\\"Tokyo\\\"]\"}", "{\"cities\": \"['Paris']\"}",
     "{\"cities\": \"Paris\"}", "{\"cities\": \"'Paris'\"}", "{\"cities\": \"[]\"}",
     "{\"cities\": \"\"}", "{\"cities\": \"5\"}", "{\"cities\": \"None\"}",
     "{\"cities\": \"{[1]: 2}\"}"}

\* The chunks a freely generated stream is made of: content pieces and
\* fragments for two slots whose pieces only make sense in one order.
FreeChunks ==
    {TextChunk("Hi"), TextChunk("!")}
    \cup {CallChunk(i, "a", "get_", "{") : i \in {0, 1}}
    \cup {CallChunk(i, "b", "weather", "}") : i \in {0, 1}}

\* all streams of at most n chunks of FreeChunks
RECURSIVE FreeStreams(_)
FreeStreams(n) ==
    IF n = 0 THEN {<<>>}
    ELSE LET shorter == FreeStreams(n - 1)
         IN  shorter \cup {Append(s, c) : s \in shorter, c \in FreeChunks}

\* What the LLM answers to the successive requests, stream by stream.
FinitePlans ==
    {<<StreamHello>>, <<StreamEmpty>>, <<StreamParisTokyo>>, <<StreamTwoCalls>>,
     <<StreamCall("get_time", "{\"cities\": [\"Paris\", \"Paris\"]}")>>,
     <<StreamCall("get_time", "5")>>,
     <<StreamCall("get_weather", "{}"), StreamCall("get_weather", "{\"cities\": []}")>>}
    \cup {<<StreamCall("get_weather", a)>> : a \in ArgumentTexts}
    \cup {<<s>> : s \in FreeStreams(MaxFrags)}

\* The sessions explored: the LLM answers the streams of `streams` and every
\* request after them with `rest`; an LLM may go on answering with tool
\* calls for as long as it is asked.
Plans ==
    {[streams |-> p, rest |-> StreamHello] : p \in FinitePlans}
    \cup {[streams |-> <<>>, rest |-> StreamCall("get_weather", "{}")]}

(***************************************************************************)
(* weather_service.py as the assistant sees it, and the result types of    *)
(* models.py.  The answer of Open-Meteo to each lookup is an outcome the   *)
(* environment chooses.                                                    *)
(***************************************************************************)
GeoOutcomes == {"found", "notfound", "timeout", "httperror", "keyerror"}
WeatherOutcomes == {"ok", "timeout", "httperror"}

Location(latitude, longitude, name, country) ==
    [latitude |-> latitude, longitude |-> longitude, name |-> name, country |-> country]

\* results[0] of the geocoding answer for a city that is found; the answer
\* for X carries no country
GeocodingResult(city) ==
    CASE city = PyStr("Paris") -> Location(PyFloat(48, 9), PyFloat(2, 3), "Paris", "France")
      [] city = PyStr("Tokyo") -> Location(PyFloat(35, 7), PyFloat(139, 7), "Tokyo", "Japan")
      [] OTHER -> Location(PyFloat(1, 5), PyFloat(2, 5), CityStr(city), "")

\* mutant: a timeout or HTTP failure of the geocoding request leaves
\* get_coordinates as an exception instead of being turned into None
GetCoordinatesTransportRaises(city, answer) ==
    CASE answer = "found" -> [err |-> "", msg |-> "", v |-> Some(GeocodingResult(city))]
      [] answer = "keyerror" -> [err |-> "KeyError", msg |-> "'latitude'", v |-> NoneOpt]
      [] answer = "notfound" -> [err |-> "", msg |-> "", v |-> NoneOpt]
      [] OTHER -> [err |-> "HTTPError", msg |-> "timed out", v |-> NoneOpt]

\* get_coordinates: the Location, None (not found, and also timeout and HTTP
\* failure, lines 63-68), or an exception that is no httpx.HTTPError and
\* leaves the function (a result without "latitude": KeyError)
GetCoordinates(city, answer) ==
    CASE answer = "found" -> [err |-> "", msg |-> "", v |-> Some(GeocodingResult(city))]
      [] answer = "keyerror" -> [err |-> "KeyError", msg |-> "'latitude'", v |-> NoneOpt]
      [] OTHER -> [err |-> "", msg |-> "", v |-> NoneOpt]

\* the current conditions of a successful forecast answer
WeatherData ==
    [temperature |-> PyFloat(20, 5), apparent_temperature |-> PyFloat(19, 0),
     humidity |-> PyInt(60), wind_speed |-> PyFloat(12, 4), precipitation |-> PyFloat(0, 0),
     temperature_unit |-> "C", humidity_unit |-> "%", wind_speed_unit |-> "km/h",
     precipitation_unit |-> "mm"]

\* get_current_weather: the WeatherData, or the ValueError of lines 106-109
GetCurrentWeather(location, answer) ==
    CASE answer = "ok" -> [err |-> "", msg |-> "", v |-> Some(WeatherData)]
      [] answer = "timeout" ->
            [err |-> "ValueError",
             msg |-> "Timeout while fetching weather data: " \o "timed out",
             v |-> NoneOpt]
      [] OTHER ->
            [err |-> "ValueError",
             msg |-> "Error fetching weather data: " \o "Server error '500 Internal Server Error'",
             v |-> NoneOpt]

\* Location.__str__
LocationStr(l) == IF l.country # "" THEN l.name \o ", " \o l.country ELSE l.name

\* WeatherData.format_for_llm
FormatForLLM(w) ==
    "Temperature: " \o PyNumStr(w.temperature) \o " " \o w.temperature_unit \o "\n"
    \o "Feels like: " \o PyNumStr(w.apparent_temperature) \o " " \o w.temperature_unit \o "\n"
    \o "Humidity: " \o PyNumStr(w.humidity) \o " " \o w.humidity_unit \o "\n"
    \o "Wind Speed: " \o PyNumStr(w.wind_speed) \o " " \o w.wind_speed_unit \o "\n"
    \o "Precipitation: " \o PyNumStr(w.precipitation) \o " " \o w.precipitation_unit

CityWeatherResult(city, location, weather_data, error) ==
    [city |-> city, location |-> location, weather_data |-> weather_data, error |-> error]

\* CityWeatherResult.to_string
CityToString(r) ==
    IF r.error # NoneOpt /\ r.error[1] # "" THEN r.error[1]
    ELSE IF r.location # NoneOpt /\ r.weather_data # NoneOpt
         THEN "Weather for " \o LocationStr(r.location[1]) \o ":\n"
              \o FormatForLLM(r.weather_data[1])
    ELSE "Error: Incomplete data for city '" \o CityStr(r.city) \o "'."

\* _get_weather_for_city lines 397-401: what the pipeline does with the
\* answer of get_coordinates: raise, return the not-found error, or go on
NotFoundResult(city) ==
    CityWeatherResult(city, NoneOpt, NoneOpt,
        Some("Error: Could not find coordinates for city '" \o CityStr(city) \o "'."))

\* _get_weather_for_city lines 404-412: the result built from the answer of
\* get_current_weather
WeatherResult(city, location, w) ==
    IF w.err = "" THEN CityWeatherResult(city, Some(location), w.v, NoneOpt)
    ELSE CityWeatherResult(city, NoneOpt, NoneOpt,
            Some("Error fetching weather data for " \o CityStr(city) \o ": " \o w.msg))

\* A per-city pipeline (a task of asyncio.gather): st is geo while
\* get_coordinates is awaited, wx while get_current_weather is awaited, then
\* done with a returned result or a raised exception.  geo and wx keep the
\* outcomes the environment chose.
Task(city) ==
    [city |-> city, st |-> "geo", location |-> NoneOpt, result |-> NoneOpt,
     exc |-> NoneOpt, geo |-> "", wx |-> ""]

\* mutant: the entries in the order the tasks finished (asyncio.as_completed)
GatherInCompletionOrder(ts, order) ==
    [k \in 1..Len(order) |-> [exc |-> ts[order[k]].exc, value |-> ts[order[k]].result]]

\* asyncio.gather(*city_tasks, return_exceptions=True): one entry per task,
\* in the order the tasks were given, an exception standing for a task that raised
GatherResults(ts, order) ==
    [i \in 1..Len(ts) |-> [exc |-> ts[i].exc, value |-> ts[i].result]]

\* mutant: the error of a raised pipeline names the first city of the list
ProcessCityResultsFirstCity(cities, results) ==
    [i \in 1..Len(results) |->
        IF results[i].exc # NoneOpt
        THEN CityWeatherResult(cities[1], NoneOpt, NoneOpt,
                Some("Error processing city '" \o CityStr(cities[1]) \o "': "
                     \o results[i].exc[1]))
        ELSE results[i].value[1]]

\* _process_city_results
ProcessCityResults(cities, results) ==
    [i \in 1..Len(results) |->
        IF results[i].exc # NoneOpt
        THEN CityWeatherResult(cities[i], NoneOpt, NoneOpt,
                Some("Error processing city '" \o CityStr(cities[i]) \o "': "
                     \o results[i].exc[1]))
        ELSE results[i].value[1]]

\* "\n\n".join(strs)
RECURSIVE JoinBlankLine(_)
JoinBlankLine(strs) ==
    IF strs = <<>> THEN ""
    ELSE IF Len(strs) = 1 THEN strs[1]
    ELSE strs[1] \o "\n\n" \o JoinBlankLine(Tail(strs))

\* mutant: the blocks joined by a single line break
RECURSIVE FormatJoinedByNewline(_)
FormatJoinedByNewline(results) ==
    IF results = <<>> THEN ""
    ELSE IF Len(results) = 1 THEN CityToString(results[1])
    ELSE CityToString(results[1]) \o "\n" \o FormatJoinedByNewline(Tail(results))

\* _format_weather_content
FormatWeatherContent(results) ==
    JoinBlankLine([i \in 1..Len(results) |-> CityToString(results[i])])

\* ToolCallResponse.to_dict
ToolCallResponse(tool_call_id, name, content) ==
    [tool_call_id |-> tool_call_id, role |-> "tool", name |-> name, content |-> content]

\* WeatherToolResult.to_tool_response
ToToolResponse(call_id, name, content) == ToolCallResponse(call_id, name, content)

\* _create_error_response
CreateErrorResponse(call_id, error_message) ==
    ToToolResponse(call_id, WEATHER_TOOL_NAME, error_message)

\* _handle_tool_calls lines 229-234: the Message built from the response dict
ToolMessage(d) == Message(d.role, Some(d.content), NoneOpt, Some(d.tool_call_id), Some(d.name))

(***************************************************************************)
(* _execute_tool_call with _run_weather_tool, up to its first suspension:  *)
(* the exception that leaves it, the response it returns without any       *)
(* lookup, or the cities it fans out for.                                  *)
(***************************************************************************)
Raises(e) == [kind |-> "raise", err |-> e]
Responds(d) == [kind |-> "response", d |-> d]
FansOut(call_id, cities) == [kind |-> "fanout", call_id |-> call_id, cities |-> cities]

\* mutant: no check for an empty list, the fan-out runs for zero cities
RunWeatherToolUnchecked(call_id, arguments) ==
    LET cities == ValidateAndNormalizeCities(arguments)
    IN  IF cities.err # "" THEN Raises(cities.err)
        ELSE FansOut(call_id, cities.v.items)

\* _run_weather_tool lines 288-295
RunWeatherTool(call_id, arguments) ==
    LET cities == ValidateAndNormalizeCities(arguments)
    IN  IF cities.err # "" THEN Raises(cities.err)
        ELSE IF ~Truthy(cities.v)
             THEN Responds(CreateErrorResponse(call_id, "Error: No cities provided."))
        ELSE FansOut(call_id, cities.v.items)

\* _execute_tool_call
ExecuteToolCall(tool_call) ==
    LET func_name == tool_call.function.name
        parsed_args == ParseToolArguments(tool_call.function.arguments)
        arguments == ParsedToDict(parsed_args)
    IN  IF parsed_args.err # "" THEN Raises(parsed_args.err)
        ELSE IF func_name = WEATHER_TOOL_NAME
             THEN IF arguments.err # "" THEN Raises(arguments.err)
                  ELSE RunWeatherTool(tool_call.id, arguments.v)
        ELSE Responds(ToolCallResponse(tool_call.id, func_name,
                                       "Error: Unknown function requested."))

(***************************************************************************)
(* The interaction loop.                                                   *)
(***************************************************************************)
CLI_ASSISTANT_PROMPT == "Assistant: "
UserInputs == {"Hello"}

\* mutant: the handler catches ValueError only
LoopCatchesValueError(err) == err = "ValueError"

\* line 96: `except Exception` catches every exception class of this model
LoopCatches(err) == TRUE

\* how the loop ends on an exception raised in a turn: caught by the handler
\* of lines 96-98, or propagated out of process_message
ExceptionEnd(err, at) ==
    [end |-> IF LoopCatches(err) THEN "exception" ELSE "propagated",
     err |-> err, at |-> at]
Running == [end |-> "", err |-> "", at |-> ""]

\* the stream the LLM answers the next request with
NextStream == IF plan.streams = <<>> THEN plan.rest ELSE Head(plan.streams)

\* run_cli: st is input while the loop of lines 44-62 waits for or handles a
\* line, then follows close() (closing_client, closing_weather) to ended;
\* closes, client_closes and weather_closes count the calls made to close(),
\* client.close() and weather_service.close(); err names the release that
\* raised
Session(st, closes, client_closes, weather_closes, err) ==
    [st |-> st, closes |-> closes, client_closes |-> client_closes,
     weather_closes |-> weather_closes, err |-> err]

Init ==
    /\ conversation_history =
           <<Message("system", Some(SYSTEM_PROMPT), NoneOpt, NoneOpt, NoneOpt)>>
    /\ pc = "idle"
    /\ plan \in Plans
    /\ stream = <<>>
    /\ collected_content = ""
    /\ tool_calls_buffer = <<>>
    /\ printed = ""
    /\ drained = <<>>
    /\ call = [call_id |-> "", cities |-> <<>>]
    /\ tasks = <<>>
    /\ completed = <<>>
    /\ city_results = <<>>
    /\ parsed = NoneOpt
    /\ sent = <<>>
    /\ turn = [calls |-> 0, start |-> 0, reqs |-> 0]
    /\ outcome = Running
    /\ lookups = 0
    /\ session = Session("input", 0, 0, 0, "")

\* mutant: each call starts from a fresh transcript of the system message
\* and the new user message
ProcessMessageFresh(user_input) ==
    /\ session.st = "input"
    /\ pc = "idle"
    /\ turn.calls < MaxCalls
    /\ conversation_history' =
           <<conversation_history[1],
             Message("user", Some(user_input), NoneOpt, NoneOpt, NoneOpt)>>
    /\ pc' = "awaiting"
    /\ turn' = [calls |-> turn.calls + 1, start |-> 1, reqs |-> 0]
    /\ outcome' = Running
    /\ drained' = <<>>
    /\ UNCHANGED <<plan, stream, collected_content, tool_calls_buffer, printed, call,
                   tasks, completed, city_results, parsed, sent, lookups,
                   session>>

\* process_message: the user message is appended and the loop entered
ProcessMessage(user_input) ==
    /\ session.st = "input"
    /\ pc = "idle"
    /\ turn.calls < MaxCalls
    /\ conversation_history' =
           Append(conversation_history,
                  Message("user", Some(user_input), NoneOpt, NoneOpt, NoneOpt))
    /\ pc' = "awaiting"
    /\ turn' = [calls |-> turn.calls + 1, start |-> Len(conversation_history), reqs |-> 0]
    /\ outcome' = Running
    /\ drained' = <<>>
    /\ UNCHANGED <<plan, stream, collected_content, tool_calls_buffer, printed, call,
                   tasks, completed, city_results, parsed, sent, lookups,
                   session>>

\* _create_api_stream returns a stream; _process_stream prints the prompt
\* and starts with empty content and an empty buffer
CreateApiStream ==
    /\ pc = "awaiting"
    /\ turn.reqs < MaxTurns
    /\ HistoryToDicts(conversation_history).err = ""
    /\ sent' = HistoryToDicts(conversation_history).v
    /\ turn' = [turn EXCEPT !.reqs = @ + 1]
    /\ stream' = NextStream
    /\ plan' = IF plan.streams = <<>> THEN plan ELSE [plan EXCEPT !.streams = Tail(@)]
    /\ pc' = "streaming"
    /\ collected_content' = ""
    /\ tool_calls_buffer' = <<>>
    /\ printed' = CLI_ASSISTANT_PROMPT
    /\ drained' = Append(drained, <<>>)
    /\ UNCHANGED <<conversation_history, call, tasks, completed, city_results, parsed,
                   outcome, lookups,
                   session>>

\* mutant: the timeout is recorded in the transcript before the loop breaks
CreateApiStreamTimeoutRecorded ==
    /\ pc = "awaiting"
    /\ turn.reqs < MaxTurns
    /\ HistoryToDicts(conversation_history).err = ""
    /\ sent' = HistoryToDicts(conversation_history).v
    /\ turn' = [turn EXCEPT !.reqs = @ + 1]
    /\ conversation_history' =
           Append(conversation_history,
                  Message("assistant", Some("[System Error] API request timeout"),
                          NoneOpt, NoneOpt, NoneOpt))
    /\ pc' = "idle"
    /\ outcome' = [end |-> "timeout", err |-> "APITimeoutError", at |-> "create"]
    /\ UNCHANGED <<plan, stream, collected_content, tool_calls_buffer, printed, drained,
                   call, tasks, completed, city_results, parsed, lookups,
                   session>>

\* the request times out: APITimeoutError, _create_api_stream returns None
\* and the loop breaks (lines 87-88, 115-117)
CreateApiStreamTimeout ==
    /\ pc = "awaiting"
    /\ turn.reqs < MaxTurns
    /\ HistoryToDicts(conversation_history).err = ""
    /\ sent' = HistoryToDicts(conversation_history).v
    /\ turn' = [turn EXCEPT !.reqs = @ + 1]
    /\ pc' = "idle"
    /\ outcome' = [end |-> "timeout", err |-> "APITimeoutError", at |-> "create"]
    /\ UNCHANGED <<conversation_history, plan, stream, collected_content,
                   tool_calls_buffer, printed, drained, call, tasks, completed,
                   city_results, parsed, lookups,
                   session>>

\* the request fails with another API error, which leaves _create_api_stream
CreateApiStreamError ==
    /\ pc = "awaiting"
    /\ turn.reqs < MaxTurns
    /\ HistoryToDicts(conversation_history).err = ""
    /\ sent' = HistoryToDicts(conversation_history).v
    /\ turn' = [turn EXCEPT !.reqs = @ + 1]
    /\ pc' = "idle"
    /\ outcome' = ExceptionEnd("APIConnectionError", "create")
    /\ UNCHANGED <<conversation_history, plan, stream, collected_content,
                   tool_calls_buffer, printed, drained, call, tasks, completed,
                   city_results, parsed, lookups,
                   session>>

\* line 110: a message of the transcript does not serialise; no request is made
CreateApiStreamInvalid ==
    /\ pc = "awaiting"
    /\ HistoryToDicts(conversation_history).err # ""
    /\ pc' = "idle"
    /\ outcome' = ExceptionEnd(HistoryToDicts(conversation_history).err, "create")
    /\ UNCHANGED <<conversation_history, plan, stream, collected_content,
                   tool_calls_buffer, printed, drained, call, tasks, completed,
                   city_results, parsed, sent, turn, lookups,
                   session>>

\* _process_stream, one iteration of `async for chunk in stream`
StreamChunk ==
    /\ pc = "streaming"
    /\ stream # <<>>
    /\ LET delta == Head(stream)
       IN  /\ printed' = IF delta.content # "" THEN printed \o delta.content ELSE printed
           /\ collected_content' =
                  IF delta.content # "" THEN collected_content \o delta.content
                  ELSE collected_content
           /\ tool_calls_buffer' =
                  IF delta.tool_calls # <<>>
                  THEN AccumulateToolCallChunk(delta.tool_calls, tool_calls_buffer)
                  ELSE tool_calls_buffer
           /\ drained' = [drained EXCEPT ![Len(drained)] = Append(@, delta)]
    /\ stream' = Tail(stream)
    /\ UNCHANGED <<conversation_history, pc, plan, call, tasks, completed, city_results,
                   parsed, sent, turn, outcome, lookups,
                   session>>

\* the stream fails while it is drained: the exception reaches the loop's handler
StreamError ==
    /\ pc = "streaming"
    /\ pc' = "idle"
    /\ outcome' = ExceptionEnd("APIError", "drain")
    /\ UNCHANGED <<conversation_history, plan, stream, collected_content,
                   tool_calls_buffer, printed, drained, call, tasks, completed,
                   city_results, parsed, sent, turn, lookups,
                   session>>

\* mutant: the text that came with tool calls is dropped from the message
AssistantMessageTextOrCalls(content, tool_calls_list) ==
    Message("assistant",
            IF content # "" /\ tool_calls_list = NoneOpt THEN Some(content) ELSE NoneOpt,
            tool_calls_list, NoneOpt, NoneOpt)

\* the assistant message of _handle_stream_response, lines 200-204 and 210-212
AssistantMessage(content, tool_calls_list) ==
    Message("assistant",
            IF content # "" THEN Some(content) ELSE NoneOpt,
            tool_calls_list, NoneOpt, NoneOpt)

\* mutant: the final text is appended but the loop is told to continue
HandleTextResponseContinue ==
    /\ pc = "streaming"
    /\ stream = <<>>
    /\ tool_calls_buffer = <<>>
    /\ printed' = printed \o "\n"
    /\ conversation_history' =
           Append(conversation_history,
                  Message("assistant",
                          IF collected_content # "" THEN Some(collected_content)
                          ELSE NoneOpt,
                          NoneOpt, NoneOpt, NoneOpt))
    /\ pc' = "awaiting"
    /\ UNCHANGED <<plan, stream, collected_content, tool_calls_buffer, drained, call,
                   tasks, completed, city_results, parsed, sent, turn, outcome, lookups,
                   session>>

\* stream end with an empty buffer: the final assistant message, loop ends
HandleTextResponse ==
    /\ pc = "streaming"
    /\ stream = <<>>
    /\ tool_calls_buffer = <<>>
    /\ printed' = printed \o "\n"
    /\ conversation_history' =
           Append(conversation_history, AssistantMessage(collected_content, NoneOpt))
    /\ pc' = "idle"
    /\ outcome' = [end |-> "text", err |-> "", at |-> ""]
    /\ UNCHANGED <<plan, stream, collected_content, tool_calls_buffer, drained, call,
                   tasks, completed, city_results, parsed, sent, turn, lookups,
                   session>>

\* stream end with tool calls: the list in slot order and its assistant message
ToolCallsList == ConvertToolCallsBuffer(tool_calls_buffer)
ToolCallsMessage ==
    AssistantMessage(collected_content,
        Some([i \in 1..Len(ToolCallsList) |-> ToHistoryDict(ToolCallsList[i])]))
\* mutant: the tool call executed is the last of the list
LastToolCall == ToolCallsList[Len(ToolCallsList)]

\* _handle_tool_calls line 227: the tool call that is executed
FirstToolCall == ToolCallsList[1]

\* the assistant message is appended and the tool call raises: loop ends
HandleToolCallsRaise ==
    /\ pc = "streaming"
    /\ stream = <<>>
    /\ tool_calls_buffer # <<>>
    /\ ExecuteToolCall(FirstToolCall).kind = "raise"
    /\ printed' = printed \o "\n"
    /\ conversation_history' = Append(conversation_history, ToolCallsMessage)
    /\ parsed' = Some(ParseToolArguments(FirstToolCall.function.arguments))
    /\ pc' = "idle"
    /\ outcome' = ExceptionEnd(ExecuteToolCall(FirstToolCall).err, "tool")
    /\ UNCHANGED <<plan, stream, collected_content, tool_calls_buffer, drained, call,
                   tasks, completed, city_results, sent, turn, lookups,
                   session>>

\* the tool call is answered without a lookup (unknown function, no cities):
\* the assistant message and the tool message are appended, the loop goes on
HandleToolCallsRespond ==
    /\ pc = "streaming"
    /\ stream = <<>>
    /\ tool_calls_buffer # <<>>
    /\ ExecuteToolCall(FirstToolCall).kind = "response"
    /\ printed' = printed \o "\n"
    /\ conversation_history' =
           Append(Append(conversation_history, ToolCallsMessage),
                  ToolMessage(ExecuteToolCall(FirstToolCall).d))
    /\ parsed' = Some(ParseToolArguments(FirstToolCall.function.arguments))
    /\ pc' = "awaiting"
    /\ UNCHANGED <<plan, stream, collected_content, tool_calls_buffer, drained, call,
                   tasks, completed, city_results, sent, turn, outcome, lookups,
                   session>>

\* the assistant message is appended and _fetch_weather_for_cities starts a
\* pipeline per city; each runs to its await of get_coordinates
HandleToolCallsFanOut ==
    /\ pc = "streaming"
    /\ stream = <<>>
    /\ tool_calls_buffer # <<>>
    /\ ExecuteToolCall(FirstToolCall).kind = "fanout"
    /\ printed' = printed \o "\n"
    /\ conversation_history' = Append(conversation_history, ToolCallsMessage)
    /\ parsed' = Some(ParseToolArguments(FirstToolCall.function.arguments))
    /\ LET x == ExecuteToolCall(FirstToolCall)
       IN  /\ call' = [call_id |-> x.call_id, cities |-> x.cities]
           /\ tasks' = [i \in 1..Len(x.cities) |-> Task(x.cities[i])]
           /\ lookups' = lookups + Len(x.cities)
    /\ completed' = <<>>
    /\ pc' = "fanout"
    /\ UNCHANGED <<plan, stream, collected_content, tool_calls_buffer, drained,
                   city_results, sent, turn, outcome,
                   session>>

\* get_coordinates answers pipeline i, which ends (not found, exception) or
\* goes on to await get_current_weather
GeoComplete(i, answer) ==
    /\ pc = "fanout"
    /\ i \in 1..Len(tasks)
    /\ tasks[i].st = "geo"
    /\ LET r == GetCoordinates(tasks[i].city, answer)
       IN  IF r.err # ""
           THEN /\ tasks' = [tasks EXCEPT ![i].st = "done", ![i].geo = answer,
                                          ![i].exc = Some(r.msg)]
                /\ completed' = Append(completed, i)
                /\ lookups' = lookups
           ELSE IF r.v = NoneOpt
           THEN /\ tasks' = [tasks EXCEPT ![i].st = "done", ![i].geo = answer,
                                          ![i].result = Some(NotFoundResult(tasks[i].city))]
                /\ completed' = Append(completed, i)
                /\ lookups' = lookups
           ELSE /\ tasks' = [tasks EXCEPT ![i].st = "wx", ![i].geo = answer,
                                          ![i].location = r.v]
                /\ completed' = completed
                /\ lookups' = lookups + 1
    /\ UNCHANGED <<conversation_history, pc, plan, stream, collected_content,
                   tool_calls_buffer, printed, drained, call, city_results, parsed,
                   sent, turn, outcome,
                   session>>

\* get_current_weather answers pipeline i, which ends with its result
WeatherComplete(i, answer) ==
    /\ pc = "fanout"
    /\ i \in 1..Len(tasks)
    /\ tasks[i].st = "wx"
    /\ tasks' = [tasks EXCEPT
                    ![i].st = "done", ![i].wx = answer,
                    ![i].result =
                        Some(WeatherResult(tasks[i].city, tasks[i].location[1],
                                GetCurrentWeather(tasks[i].location[1], answer)))]
    /\ completed' = Append(completed, i)
    /\ UNCHANGED <<conversation_history, pc, plan, stream, collected_content,
                   tool_calls_buffer, printed, drained, call, city_results, parsed,
                   sent, turn, outcome, lookups,
                   session>>

\* mutant: the join returns as soon as one pipeline has finished
\* (asyncio.wait with FIRST_COMPLETED), with the results there are
FanOutJoinOnFirst ==
    /\ pc = "fanout"
    /\ \E i \in 1..Len(tasks) : tasks[i].st = "done"
    /\ LET finished == SelectSeq(tasks, LAMBDA t : t.st = "done")
           results == ProcessCityResults(call.cities, GatherResults(finished, completed))
           content == FormatWeatherContent(results)
       IN  /\ city_results' = results
           /\ conversation_history' =
                  Append(conversation_history,
                         ToolMessage(ToToolResponse(call.call_id, WEATHER_TOOL_NAME, content)))
    /\ tasks' = <<>>
    /\ pc' = "awaiting"
    /\ UNCHANGED <<plan, stream, collected_content, tool_calls_buffer, printed, drained,
                   call, completed, parsed, sent, turn, outcome, lookups,
                   session>>

\* every pipeline has ended: gather returns, the results are processed and
\* formatted, the tool message is appended and the loop goes on
FanOutJoin ==
    /\ pc = "fanout"
    /\ \A i \in 1..Len(tasks) : tasks[i].st = "done"
    /\ LET results == ProcessCityResults(call.cities, GatherResults(tasks, completed))
           content == FormatWeatherContent(results)
       IN  /\ city_results' = results
           /\ conversation_history' =
                  Append(conversation_history,
                         ToolMessage(ToToolResponse(call.call_id, WEATHER_TOOL_NAME, content)))
    /\ tasks' = <<>>
    /\ pc' = "awaiting"
    /\ UNCHANGED <<plan, stream, collected_content, tool_calls_buffer, printed, drained,
                   call, completed, parsed, sent, turn, outcome, lookups,
                   session>>

(***************************************************************************)
(* cli.py: run_cli around the assistant, and WeatherAssistant.close.       *)
(***************************************************************************)
\* the ways input() ends the loop other than an exit command (line 58)
InputFailures == {"eof", "interrupt"}

\* lines 49-51 and 63-64: an exit command was read; the loop breaks and the
\* finally clause calls close()
ReadExitCommand ==
    /\ session.st = "input"
    /\ pc = "idle"
    /\ session' = [session EXCEPT !.st = "closing_client", !.closes = @ + 1]
    /\ UNCHANGED assistant_vars

\* lines 53-54: a blank line was read; the loop continues
ReadBlankLine ==
    /\ session.st = "input"
    /\ pc = "idle"
    /\ UNCHANGED vars

\* lines 58-60 and 63-64: input() raised EOFError or KeyboardInterrupt; the
\* loop breaks and the finally clause calls close()
InputFails(how) ==
    /\ session.st = "input"
    /\ pc = "idle"
    /\ how \in InputFailures
    /\ session' = [session EXCEPT !.st = "closing_client", !.closes = @ + 1]
    /\ UNCHANGED assistant_vars

\* close, line 416: client.close() returns
ClientClose ==
    /\ session.st = "closing_client"
    /\ session' = [session EXCEPT !.st = "closing_weather", !.client_closes = @ + 1]
    /\ UNCHANGED assistant_vars

\* close, line 416: client.close() raises; the exception leaves close() and
\* run_cli, and line 417 is not reached
ClientCloseFails ==
    /\ session.st = "closing_client"
    /\ session' = [session EXCEPT !.st = "ended", !.client_closes = @ + 1,
                                  !.err = "client"]
    /\ UNCHANGED assistant_vars

\* close, line 417: weather_service.close() returns
WeatherServiceClose ==
    /\ session.st = "closing_weather"
    /\ session' = [session EXCEPT !.st = "ended", !.weather_closes = @ + 1]
    /\ UNCHANGED assistant_vars

\* close, line 417: weather_service.close() raises
WeatherServiceCloseFails ==
    /\ session.st = "closing_weather"
    /\ session' = [session EXCEPT !.st = "ended", !.weather_closes = @ + 1,
                                  !.err = "weather"]
    /\ UNCHANGED assistant_vars

Next ==
    \/ \E user_input \in UserInputs : ProcessMessage(user_input)
    \/ CreateApiStream
    \/ CreateApiStreamTimeout
    \/ CreateApiStreamError
    \/ CreateApiStreamInvalid
    \/ StreamChunk
    \/ StreamError
    \/ HandleTextResponse
    \/ HandleToolCallsRaise
    \/ HandleToolCallsRespond
    \/ HandleToolCallsFanOut
    \/ \E i \in 1..Len(tasks), answer \in GeoOutcomes : GeoComplete(i, answer)
    \/ \E i \in 1..Len(tasks), answer \in WeatherOutcomes : WeatherComplete(i, answer)
    \/ FanOutJoin
    \/ ReadExitCommand
    \/ ReadBlankLine
    \/ \E how \in InputFailures : InputFails(how)
    \/ ClientClose
    \/ ClientCloseFails
    \/ WeatherServiceClose
    \/ WeatherServiceCloseFails

Spec == Init /\ [][Next]_vars

(***************************************************************************)
(* Properties.                                                             *)
(***************************************************************************)

\* the tool-call fragments of a sequence of chunks, in arrival order
RECURSIVE FragmentsOf(_)
FragmentsOf(chunks) ==
    IF chunks = <<>> THEN <<>>
    ELSE Head(chunks).tool_calls \o FragmentsOf(Tail(chunks))

\* the concatenation of the pieces `field` of the fragments of slot `slot`
RECURSIVE PiecesOf(_, _, _)
PiecesOf(frags, slot, field) ==
    IF frags = <<>> THEN ""
    ELSE IF Head(frags).index = slot
         THEN Head(frags)[field] \o PiecesOf(Tail(frags), slot, field)
    ELSE PiecesOf(Tail(frags), slot, field)

SlotsOf(frags) == {frags[i].index : i \in 1..Len(frags)}
\* the k-th smallest slot
SlotAt(frags, k) ==
    CHOOSE s \in SlotsOf(frags) : Cardinality({t \in SlotsOf(frags) : t < s}) = k - 1

\* the chunks the open stream has delivered so far
Delivered == IF drained = <<>> THEN <<>> ELSE drained[Len(drained)]

\* C1: after any sequence of fragments the assembler holds exactly one
\* invocation per slot index seen, returned in ascending slot order, and the
\* id, name and arguments of each are the concatenation, in arrival order, of
\* the pieces of that slot's fragments alone (so the result does not depend
\* on how fragments of different slots are interleaved).
C1_AssemblyBySlot ==
    pc = "streaming" =>
        LET frags == FragmentsOf(Delivered)
            list == ConvertToolCallsBuffer(tool_calls_buffer)
        IN  /\ Len(list) = Cardinality(SlotsOf(frags))
            /\ \A k \in 1..Len(list) :
                  list[k] = ToolInvocation(PiecesOf(frags, SlotAt(frags, k), "id"),
                                           PiecesOf(frags, SlotAt(frags, k), "name"),
                                           PiecesOf(frags, SlotAt(frags, k), "arguments"))

\* C1 witness: slot 1 was seen before slot 0 and got a second fragment after
\* slot 0's; the stream has ended and slot 1's name is whole
C1_Witness ==
    /\ pc = "streaming"
    /\ stream = <<>>
    /\ Len(tool_calls_buffer) = 2
    /\ tool_calls_buffer[1].idx = 1
    /\ Len(FragmentsOf(Delivered)) = 3
    /\ FragmentsOf(Delivered)[2].index = 0
    /\ ConvertToolCallsBuffer(tool_calls_buffer)[2].function.name = "get_weather"
    /\ ConvertToolCallsBuffer(tool_calls_buffer)[2].function.arguments = "{}"

\* C2 (as claimed): _parse_tool_arguments never raises and the cities it
\* returns are a list, whatever the argument text.
C2_ParsingTotal ==
    parsed # NoneOpt => (parsed[1].err = "" /\ parsed[1].cities.t = "list")

\* the outcome of pipeline i as the environment decided it
PipelineSucceeded(t) == t.geo = "found" /\ t.wx = "ok"
IsPrefix(s, t) == Len(s) <= Len(t) /\ SubSeq(t, 1, Len(s)) = s
LastMessage == conversation_history[Len(conversation_history)]
\* the step in which asyncio.gather returns
JoinStep == pc = "fanout" /\ pc' = "awaiting"

\* C3: when the fan-out returns, the result list is as long as the city list
\* and its i-th entry is the outcome of the i-th pipeline for the i-th city,
\* whatever the order in which the pipelines finished and whichever failed.
C3_FanOutKeepsInputOrder ==
    [][JoinStep =>
        /\ Len(city_results') = Len(call.cities)
        /\ \A i \in 1..Len(call.cities) :
              /\ city_results'[i].city = call.cities[i]
              /\ tasks[i].exc = NoneOpt => city_results'[i] = tasks[i].result[1]
              /\ PipelineSucceeded(tasks[i]) <=> city_results'[i].error = NoneOpt]_vars

\* C3 witness: for [X, Y, Z] the pipelines finished in the order Z, X, Y; Y
\* was not found and Z's fetch failed; the results are X, Y, Z in that order
C3_Witness ==
    /\ pc = "awaiting"
    /\ call.cities = <<PyStr("X"), PyStr("Y"), PyStr("Z")>>
    /\ completed = <<3, 1, 2>>
    /\ Len(city_results) = 3
    /\ city_results[1].city = PyStr("X") /\ city_results[1].error = NoneOpt
    /\ city_results[1].weather_data # NoneOpt
    /\ city_results[2] = NotFoundResult(PyStr("Y"))
    /\ city_results[3].city = PyStr("Z")
    /\ city_results[3].error =
          Some("Error fetching weather data for Z: Error fetching weather data: Server error '500 Internal Server Error'")

\* the error string a failed pipeline must end with, for its own city
OwnErrorString(t) ==
    CASE t.geo \in {"notfound", "timeout", "httperror"} ->
            "Error: Could not find coordinates for city '" \o CityStr(t.city) \o "'."
      [] t.geo = "keyerror" ->
            "Error processing city '" \o CityStr(t.city) \o "': 'latitude'"
      [] t.wx = "timeout" ->
            "Error fetching weather data for " \o CityStr(t.city)
            \o ": Timeout while fetching weather data: timed out"
      [] OTHER ->
            "Error fetching weather data for " \o CityStr(t.city)
            \o ": Error fetching weather data: Server error '500 Internal Server Error'"

\* C4: a failure in one pipeline (not found, transport failure, fetch
\* failure, any other exception) becomes that city's own error string; the
\* pipelines that succeeded keep their weather result; no step of the fan-out
\* ends the turn, and the join appends exactly one tool-result message.
C4_FailureIsolation ==
    [][/\ pc = "fanout" => (pc' \in {"fanout", "awaiting"} /\ outcome' = Running)
       /\ JoinStep =>
            /\ \A i \in 1..Len(tasks) :
                  IF PipelineSucceeded(tasks[i])
                  THEN /\ city_results'[i].error = NoneOpt
                       /\ city_results'[i].location = Some(GeocodingResult(tasks[i].city))
                       /\ city_results'[i].weather_data = Some(WeatherData)
                  ELSE city_results'[i].error = Some(OwnErrorString(tasks[i]))
            /\ Len(conversation_history') = Len(conversation_history) + 1
            /\ IsPrefix(conversation_history, conversation_history')
            /\ conversation_history'[Len(conversation_history')].role = "tool"]_vars

\* C4 witness: of two pipelines for Paris the first raised inside
\* get_coordinates and the second succeeded; the tool result holds both
C4_Witness ==
    /\ pc = "awaiting"
    /\ Len(city_results) = 2
    /\ city_results[1].error = Some("Error processing city 'Paris': 'latitude'")
    /\ city_results[2].error = NoneOpt
    /\ city_results[2].location # NoneOpt
    /\ LastMessage.role = "tool"
    /\ LastMessage.content =
          Some("Error processing city 'Paris': 'latitude'" \o "\n\n"
               \o CityToString(city_results[2]))

\* the normalized city list of the tool call about to be executed is empty
NoCitiesCall ==
    /\ pc = "streaming" /\ stream = <<>> /\ tool_calls_buffer # <<>>
    /\ FirstToolCall.function.name = WEATHER_TOOL_NAME
    /\ LET p == ParseToolArguments(FirstToolCall.function.arguments)
       IN  /\ p.err = ""
           /\ ParsedToDict(p).err = ""
           /\ ValidateAndNormalizeCities(ParsedToDict(p).v) = [err |-> "", v |-> PyList(<<>>)]

\* C5: when the normalized city list is empty the tool call is answered, in
\* the step that handles it, by exactly one tool-result message with the
\* content "Error: No cities provided."; no lookup is issued and no fan-out
\* is started.
C5_NoCitiesIsAnError ==
    [][(NoCitiesCall /\ conversation_history' # conversation_history) =>
        /\ Len(conversation_history') = Len(conversation_history) + 2
        /\ conversation_history'[Len(conversation_history') - 1].role = "assistant"
        /\ conversation_history'[Len(conversation_history')] =
              Message("tool", Some("Error: No cities provided."), NoneOpt,
                      Some(FirstToolCall.id), Some("get_weather"))
        /\ lookups' = lookups
        /\ tasks' = tasks
        /\ pc' = "awaiting"]_vars

\* C5 witness: `cities` was null; the fixed error was appended, nothing looked up
C5_Witness ==
    /\ pc = "awaiting"
    /\ parsed # NoneOpt
    /\ parsed[1].raw_arguments = PyDict(<<KV("cities", PyNone)>>)
    /\ LastMessage.role = "tool"
    /\ LastMessage.content = Some("Error: No cities provided.")
    /\ lookups = 0

\* C6 (as claimed): every assistant message of the transcript carries
\* non-empty content or at least one tool call.
C6_AssistantMessagesCarrySomething ==
    \A i \in 1..Len(conversation_history) :
        conversation_history[i].role = "assistant" =>
            \/ conversation_history[i].content \notin {NoneOpt, Some("")}
            \/ /\ conversation_history[i].tool_calls # NoneOpt
               /\ conversation_history[i].tool_calls[1] # <<>>

\* C7: an exception raised in a turn never leaves process_message; the step
\* that raises it ends the loop and keeps every message appended before it;
\* after it no request is made until the next process_message call.
C7_ExceptionEndsLoop ==
    [][/\ outcome'.end # "propagated"
       /\ (outcome.end = "" /\ outcome'.end = "exception") =>
             (pc' = "idle" /\ IsPrefix(conversation_history, conversation_history'))
       /\ (outcome.end = "exception" /\ turn'.calls = turn.calls) =>
             (turn' = turn /\ sent' = sent /\ pc' = "idle"
              /\ conversation_history' = conversation_history)]_vars

\* C7 witness: the tool call raised after the assistant message was appended
C7_Witness ==
    /\ pc = "idle"
    /\ outcome.end = "exception"
    /\ outcome.at = "tool"
    /\ outcome.err = "TypeError"
    /\ LastMessage.role = "assistant"
    /\ LastMessage.tool_calls # NoneOpt
    /\ turn.reqs = 1

\* C8: a request timeout ends the loop in the same step: the transcript is
\* as it was when the request was issued, no stream is opened or drained, no
\* tool is run, and what earlier turns appended stays.
C8_TimeoutAppendsNothing ==
    [][(pc = "awaiting" /\ outcome'.end = "timeout") =>
        /\ conversation_history' = conversation_history
        /\ sent' = HistoryToDicts(conversation_history).v
        /\ pc' = "idle"
        /\ drained' = drained /\ stream' = stream
        /\ tool_calls_buffer' = tool_calls_buffer
        /\ tasks' = tasks /\ lookups' = lookups /\ parsed' = parsed]_vars

\* C8 witness: the second request of a call timed out, after a tool turn
C8_Witness ==
    /\ pc = "idle"
    /\ outcome.end = "timeout"
    /\ turn.reqs = 2
    /\ Len(drained) = 1
    /\ LastMessage.role = "tool"
    /\ Len(sent) = Len(conversation_history)

\* the text of the content fragments of a sequence of chunks
RECURSIVE ContentOf(_)
ContentOf(chunks) ==
    IF chunks = <<>> THEN ""
    ELSE Head(chunks).content \o ContentOf(Tail(chunks))

UserMessage(text) == Message("user", Some(text), NoneOpt, NoneOpt, NoneOpt)
TextMessage(text) == Message("assistant", Some(text), NoneOpt, NoneOpt, NoneOpt)

\* the first stream of the current call carried text and no tool-call
\* fragment, and the loop is past it without a failure
FirstStreamWasText ==
    /\ Len(drained) >= 1
    /\ FragmentsOf(drained[1]) = <<>>
    /\ ContentOf(drained[1]) # ""
    /\ ~(pc = "streaming" /\ Len(drained) = 1)
    /\ outcome.end # "exception"

\* C9: when the first stream of a call is plain text, the call ends there:
\* one request was issued, and the transcript grew by the user message and
\* one assistant message carrying the collected text.
C9_PlainTextAnswer ==
    FirstStreamWasText =>
        /\ pc = "idle"
        /\ outcome.end = "text"
        /\ turn.reqs = 1
        /\ Len(drained) = 1
        /\ Len(conversation_history) = turn.start + 2
        /\ conversation_history[turn.start + 1].role = "user"
        /\ conversation_history[turn.start + 2] = TextMessage(ContentOf(drained[1]))
        /\ Len(sent) = turn.start + 1

\* C9 witness: the user said "Hello", the answer "Hello!" came in two fragments
C9_Witness ==
    /\ pc = "idle"
    /\ turn.calls = 1
    /\ turn.reqs = 1
    /\ conversation_history =
          <<Message("system", Some(SYSTEM_PROMPT), NoneOpt, NoneOpt, NoneOpt),
            UserMessage("Hello"), TextMessage("Hello!")>>

\* the current call got one get_weather call for two cities in three
\* fragments, then a plain-text answer, and has ended
ScenarioTwo ==
    /\ pc = "idle"
    /\ outcome.end = "text"
    /\ Len(drained) = 2
    /\ Len(FragmentsOf(drained[1])) = 3
    /\ SlotsOf(FragmentsOf(drained[1])) = {0}
    /\ PiecesOf(FragmentsOf(drained[1]), 0, "name") = "get_weather"
    /\ Len(call.cities) = 2
    /\ FragmentsOf(drained[2]) = <<>>

\* C10: in that scenario the transcript grew by the user message, the
\* assistant message with the one reassembled tool call, one tool-result
\* message whose content is the two per-city blocks joined by a blank line,
\* and the final assistant text; two requests were issued, the second with
\* the transcript up to the tool result.
C10_ToolCallThenText ==
    ScenarioTwo =>
        LET h == conversation_history
            n == turn.start
            frags == FragmentsOf(drained[1])
        IN  /\ Len(h) = n + 4
            /\ h[n + 1].role = "user"
            /\ h[n + 2] =
                  Message("assistant",
                          IF ContentOf(drained[1]) = "" THEN NoneOpt
                          ELSE Some(ContentOf(drained[1])),
                          Some(<<[id |-> PiecesOf(frags, 0, "id"), type |-> "function",
                                  function |->
                                      [name |-> "get_weather",
                                       arguments |-> PiecesOf(frags, 0, "arguments")]]>>),
                          NoneOpt, NoneOpt)
            /\ h[n + 3] =
                  Message("tool",
                          Some(CityToString(city_results[1]) \o "\n\n"
                               \o CityToString(city_results[2])),
                          NoneOpt, Some(PiecesOf(frags, 0, "id")), Some("get_weather"))
            /\ city_results[1].city = call.cities[1]
            /\ city_results[2].city = call.cities[2]
            /\ h[n + 4] = TextMessage(ContentOf(drained[2]))
            /\ turn.reqs = 2
            /\ Len(sent) = n + 3
            /\ sent[n + 3].role = "tool"

\* C10 witness: Paris and Tokyo, both found and fetched
C10_Witness ==
    /\ ScenarioTwo
    /\ conversation_history[turn.start + 2].tool_calls[1][1].function.arguments =
          "{\"cities\": [\"Paris\", \"Tokyo\"]}"
    /\ conversation_history[turn.start + 3].content =
          Some("Weather for Paris, France:\nTemperature: 20.5 C\nFeels like: 19.0 C\nHumidity: 60 %\nWind Speed: 12.4 km/h\nPrecipitation: 0.0 mm\n\nWeather for Tokyo, Japan:\nTemperature: 20.5 C\nFeels like: 19.0 C\nHumidity: 60 %\nWind Speed: 12.4 km/h\nPrecipitation: 0.0 mm")
    /\ conversation_history[turn.start + 4] = TextMessage("Hello!")

\* the resolution of the city of pipeline t failed: not found, or a timeout
\* or HTTP failure of the geocoding request
ResolutionFailed(t) == t.geo \in {"notfound", "timeout", "httperror"}
CouldNotFind(city) ==
    "Error: Could not find coordinates for city '" \o CityStr(city) \o "'."

\* C11: a pipeline whose resolution fails ends in that step with exactly the
\* error string "Error: Could not find coordinates for city '<city>'." and
\* without a weather fetch for its city; the fan-out result keeps that string
\* for the city, and when it is the only city the tool-result content is
\* exactly that string.
C11_ResolutionFailureNoFetch ==
    [][/\ \A i \in 1..Len(tasks) :
             (/\ pc = "fanout" /\ tasks[i].st = "geo"
              /\ i <= Len(tasks') /\ tasks'[i].st # "geo"
              /\ ResolutionFailed(tasks'[i])) =>
                 /\ tasks'[i].st = "done"
                 /\ tasks'[i].wx = ""
                 /\ lookups' = lookups
                 /\ tasks'[i].exc = NoneOpt
                 /\ tasks'[i].result =
                       Some(CityWeatherResult(tasks[i].city, NoneOpt, NoneOpt,
                                              Some(CouldNotFind(tasks[i].city))))
       /\ JoinStep =>
             /\ \A i \in 1..Len(tasks) :
                   ResolutionFailed(tasks[i]) =>
                       /\ tasks[i].wx = ""
                       /\ CityToString(city_results'[i]) = CouldNotFind(tasks[i].city)
             /\ (Len(tasks) = 1 /\ ResolutionFailed(tasks[1])) =>
                   conversation_history'[Len(conversation_history')].content =
                       Some(CouldNotFind(tasks[1].city))]_vars

\* C11 witness: Qwxyzland was the only city and was not resolved; one lookup
\* (the geocoding request) was issued and the tool result is the error string
C11_Witness ==
    /\ pc = "awaiting"
    /\ call.cities = <<PyStr("Qwxyzland")>>
    /\ lookups = 1
    /\ LastMessage.role = "tool"
    /\ LastMessage.content =
          Some("Error: Could not find coordinates for city 'Qwxyzland'.")

\* the stream has ended with tool-call fragments and this step handles them
ToolTurnStep ==
    /\ pc = "streaming" /\ stream = <<>> /\ tool_calls_buffer # <<>>
    /\ conversation_history' # conversation_history

\* the descriptor of the k-th smallest slot, from the fragments delivered
DescriptorAt(frags, k) ==
    [id |-> PiecesOf(frags, SlotAt(frags, k), "id"), type |-> "function",
     function |-> [name |-> PiecesOf(frags, SlotAt(frags, k), "name"),
                   arguments |-> PiecesOf(frags, SlotAt(frags, k), "arguments")]]

\* C12 (as claimed): in every turn whose stream assembled n >= 1 invocations
\* the assistant message appended carries the n descriptors in ascending
\* slot order, the invocation of the lowest slot alone is executed, exactly
\* one tool-result message (answering that invocation) is appended, and the
\* loop goes back to awaiting the model.
C12_FirstCallOnly ==
    [][/\ ToolTurnStep =>
            LET frags == FragmentsOf(Delivered)
                n == Cardinality(SlotsOf(frags))
                h == conversation_history
                first == DescriptorAt(frags, 1)
            IN  /\ Len(conversation_history') > Len(h)
                /\ IsPrefix(h, conversation_history')
                /\ conversation_history'[Len(h) + 1].role = "assistant"
                /\ conversation_history'[Len(h) + 1].tool_calls =
                      Some([k \in 1..n |-> DescriptorAt(frags, k)])
                /\ \/ /\ pc' = "awaiting"
                      /\ Len(conversation_history') = Len(h) + 2
                      /\ conversation_history'[Len(h) + 2].role = "tool"
                      /\ conversation_history'[Len(h) + 2].tool_call_id = Some(first.id)
                   \/ /\ pc' = "fanout"
                      /\ Len(conversation_history') = Len(h) + 1
                      /\ call'.call_id = first.id
       /\ JoinStep =>
            /\ Len(conversation_history') = Len(conversation_history) + 1
            /\ conversation_history'[Len(conversation_history')].role = "tool"
            /\ conversation_history'[Len(conversation_history')].tool_call_id =
                  Some(call.call_id)]_vars

\* C13 (as claimed): when the executed tool call names a function other than
\* get_weather, whatever its argument text, the step that handles it appends
\* the tool-result message "Error: Unknown function requested." for that
\* call, starts no lookup, and the loop goes on to a further model request.
C13_UnknownFunctionAnswered ==
    [][(ToolTurnStep /\ FirstToolCall.function.name # WEATHER_TOOL_NAME) =>
        /\ Len(conversation_history') = Len(conversation_history) + 2
        /\ conversation_history'[Len(conversation_history')] =
              Message("tool", Some("Error: Unknown function requested."), NoneOpt,
                      Some(FirstToolCall.id), Some(FirstToolCall.function.name))
        /\ lookups' = lookups
        /\ tasks' = tasks
        /\ outcome' = Running
        /\ pc' = "awaiting"]_vars

\* C14 (as claimed): a get_weather call is absorbed whatever its argument
\* text: the step that handles it never ends the loop with an exception; it
\* appends the tool-result message or starts the fan-out that will, and the
\* loop goes on.
C14_MalformedArgumentsAbsorbed ==
    [][(ToolTurnStep /\ FirstToolCall.function.name = WEATHER_TOOL_NAME) =>
        /\ outcome' = Running
        /\ \/ /\ pc' = "awaiting"
              /\ Len(conversation_history') = Len(conversation_history) + 2
              /\ conversation_history'[Len(conversation_history')].role = "tool"
              /\ conversation_history'[Len(conversation_history')].tool_call_id =
                    Some(FirstToolCall.id)
           \/ /\ pc' = "fanout"
              /\ Len(tasks') >= 1]_vars

\* C15: while the fan-out runs, a step taken with a pipeline still
\* outstanding leaves the transcript alone and stays in the fan-out; the
\* transcript changes only in the step taken when every pipeline has
\* finished, and that step appends the one tool-result message.
C15_JoinWaitsForAll ==
    [][pc = "fanout" =>
        /\ (\E i \in 1..Len(tasks) : tasks[i].st # "done") =>
              (conversation_history' = conversation_history /\ pc' = "fanout")
        /\ conversation_history' # conversation_history =>
              /\ \A i \in 1..Len(tasks) : tasks[i].st = "done"
              /\ Len(completed) = Len(tasks)
              /\ Len(city_results') = Len(tasks)
              /\ conversation_history' =
                    Append(conversation_history,
                           conversation_history'[Len(conversation_history')])
              /\ conversation_history'[Len(conversation_history')].role = "tool"]_vars

\* C15 witness: three pipelines finished in the order 2, 3, 1 and the tool
\* result, appended after the last of them, has an entry for each
C15_Witness ==
    /\ pc = "awaiting"
    /\ Len(call.cities) = 3
    /\ completed = <<2, 3, 1>>
    /\ Len(city_results) = 3
    /\ LastMessage.role = "tool"
    /\ conversation_history[Len(conversation_history) - 1].role = "assistant"

\* the step issues a model request (answered by a stream, a timeout or an error)
RequestStep == turn'.calls = turn.calls /\ turn'.reqs = turn.reqs + 1

\* C16: every step leaves the transcript it found as a prefix of the new
\* one, the first message is always the system message, and every model
\* request carries one serialised message for each message of the
\* transcript as it stands, in order.
C16_TranscriptAppendOnly ==
    [][/\ IsPrefix(conversation_history, conversation_history')
       /\ conversation_history[1] =
             Message("system", Some(SYSTEM_PROMPT), NoneOpt, NoneOpt, NoneOpt)
       /\ conversation_history'[1] = conversation_history[1]
       /\ RequestStep =>
             /\ Len(sent') = Len(conversation_history)
             /\ \A i \in 1..Len(conversation_history) :
                   sent'[i] = MessageToDict(conversation_history[i])]_vars

\* C16 witness: the first call ended in an exception after a tool call; the
\* request of the second call carries the whole transcript, five messages
\* after the text answer was appended
C16_Witness ==
    /\ turn.calls = 2
    /\ pc = "idle"
    /\ outcome.end = "text"
    /\ Len(sent) = 4
    /\ Len(conversation_history) = 5
    /\ conversation_history[1].role = "system"
    /\ conversation_history[2].role = "user"
    /\ conversation_history[3].tool_calls # NoneOpt
    /\ conversation_history[4].role = "user"
    /\ sent[3] = MessageToDict(conversation_history[3])

\* C17 (as claimed): what get_coordinates gives back for a timeout or HTTP
\* failure of the geocoding request differs from what it gives back for a
\* city with no geocoding result.
C17_NotFoundIsDistinct ==
    [][\A i \in 1..Len(tasks) :
          (/\ pc = "fanout" /\ tasks[i].st = "geo" /\ i <= Len(tasks')
           /\ tasks'[i].geo \in {"timeout", "httperror"}) =>
              GetCoordinates(tasks[i].city, tasks'[i].geo)
                  # GetCoordinates(tasks[i].city, "notfound")]_vars

\* C18 (as claimed): when the session has ended, close() was called exactly
\* once and made exactly one call to release the LLM client and exactly one
\* call to release the weather service, also when the first release raised.
C18_CloseReleasesAll ==
    session.st = "ended" =>
        /\ session.closes = 1
        /\ session.client_closes = 1
        /\ session.weather_closes = 1

\* the arguments text of the tool call about to be executed decodes to an
\* object whose `cities` is a string
CitiesText ==
    LET j == JsonLoads(FirstToolCall.function.arguments)
    IN  IF j.err = "" /\ j.v.t = "dict" /\ DictHas(j.v, "cities")
           /\ DictGet(j.v, "cities", PyNone).t = "str"
        THEN Some(DictGet(j.v, "cities", PyNone).s)
        ELSE NoneOpt
\* and that string JSON-decodes to a list
StringifiedListCall ==
    /\ ToolTurnStep
    /\ FirstToolCall.function.name = WEATHER_TOOL_NAME
    /\ CitiesText # NoneOpt
    /\ JsonLoads(CitiesText[1]).err = ""
    /\ JsonLoads(CitiesText[1]).v.t = "list"

\* C19 (as claimed): when `cities` is a string that JSON-decodes to a list
\* L, the executor looks up exactly the elements of L in order, and for an
\* empty L it answers "Error: No cities provided." without any lookup.
C19_StringifiedListDecoded ==
    [][StringifiedListCall =>
        LET L == JsonLoads(CitiesText[1]).v.items
        IN  IF L = <<>>
            THEN /\ pc' = "awaiting"
                 /\ lookups' = lookups
                 /\ conversation_history'[Len(conversation_history')].content =
                       Some("Error: No cities provided.")
            ELSE /\ pc' = "fanout"
                 /\ call'.cities = L
                 /\ Len(tasks') = Len(L)
                 /\ \A i \in 1..Len(L) : tasks'[i].city = L[i]]_vars

\* the stream has ended and this step appends the turn's assistant message
AssistantMessageStep ==
    /\ pc = "streaming" /\ stream = <<>>
    /\ conversation_history' # conversation_history

\* C20: while a stream is drained, the collected content and the text emitted
\* after the prompt are both the concatenation, in arrival order, of the
\* content fragments delivered so far; and the assistant message appended at
\* the end of the stream carries exactly that concatenation (no content when
\* it is empty), with or without tool calls in the same stream.
C20_ContentIsConcatenation ==
    [][/\ pc' = "streaming" =>
             /\ collected_content' = ContentOf(drained'[Len(drained')])
             /\ printed' = CLI_ASSISTANT_PROMPT \o collected_content'
       /\ AssistantMessageStep =>
             /\ conversation_history'[Len(conversation_history) + 1].role = "assistant"
             /\ conversation_history'[Len(conversation_history) + 1].content =
                   (IF ContentOf(Delivered) = "" THEN NoneOpt
                    ELSE Some(ContentOf(Delivered)))
             /\ printed' = CLI_ASSISTANT_PROMPT \o ContentOf(Delivered) \o "\n"]_vars

\* C20 witness: the stream carried "Let me check." together with the
\* fragments of two tool calls; the assistant message holds the text and both
\* calls, and the text was emitted
C20_Witness ==
    /\ pc = "awaiting"
    /\ Len(conversation_history) >= 4
    /\ conversation_history[3].role = "assistant"
    /\ conversation_history[3].content = Some("Let me check.")
    /\ conversation_history[3].tool_calls # NoneOpt
    /\ Len(conversation_history[3].tool_calls[1]) = 2
    /\ printed = "Assistant: Let me check.\n"


\* a step that leaves the loop: process_message returns
LoopExitStep == pc # "idle" /\ pc' = "idle"

\* C21: every process_message call returns: the loop is left only by a
\* pure-text answer, a request timeout or a caught failure of the turn, and
\* the number of requests of one call is bounded, so that the loop never
\* stands before a further request once MaxTurns requests were answered.
C21_LoopReturns ==
    [][ /\ LoopExitStep => outcome'.end \in {"text", "timeout", "exception"}
        /\ pc' = "awaiting" => turn'.reqs < MaxTurns ]_vars

\* the loop is left by a text answer, a timeout or a caught failure only
LoopExitsOnly ==
    [][LoopExitStep => outcome'.end \in {"text", "timeout", "exception"}]_vars


\* C22: every tool message of the transcript comes right after an assistant
\* message that carries tool calls, and its tool_call_id is the id of the
\* first descriptor of that message, whatever the tool answered (weather
\* results, no cities, unknown function).
C22_ToolResultAnswersFirstCall ==
    \A i \in 1..Len(conversation_history) :
        conversation_history[i].role = "tool" =>
            /\ i > 1
            /\ conversation_history[i - 1].role = "assistant"
            /\ conversation_history[i - 1].tool_calls # NoneOpt
            /\ conversation_history[i - 1].tool_calls[1] # <<>>
            /\ conversation_history[i].tool_call_id =
                   Some(conversation_history[i - 1].tool_calls[1][1].id)

\* C22 witness: the assistant message carries the calls call_a and call_b in
\* slot order and the weather result that follows it answers call_a
C22_Witness ==
    /\ Len(conversation_history) >= 4
    /\ conversation_history[3].role = "assistant"
    /\ conversation_history[3].tool_calls # NoneOpt
    /\ Len(conversation_history[3].tool_calls[1]) = 2
    /\ conversation_history[3].tool_calls[1][1].id = "call_a"
    /\ conversation_history[3].tool_calls[1][2].id = "call_b"
    /\ conversation_history[4].role = "tool"
    /\ conversation_history[4].name = Some(WEATHER_TOOL_NAME)
    /\ conversation_history[4].tool_call_id = Some("call_a")


\* message i of the transcript carries tool calls and no tool message
\* answering its first call follows it
Unanswered(i) ==
    /\ conversation_history[i].role = "assistant"
    /\ conversation_history[i].tool_calls # NoneOpt
    /\ \/ i = Len(conversation_history)
       \/ conversation_history[i + 1].role # "tool"
       \/ conversation_history[i + 1].tool_call_id #
              Some(conversation_history[i].tool_calls[1][1].id)

\* C23: whenever a model request is issued, in any process_message call of
\* the session, every assistant message of the transcript that carries tool
\* calls is immediately followed by the tool message answering it: no way a
\* turn ends leaves an unanswered tool call that a later request sends.
C23_NoUnansweredToolCall ==
    [][RequestStep => \A i \in 1..Len(conversation_history) : ~Unanswered(i)]_vars


\* the loop stands before a request and this step is what it does there
LoopAtRequestStep == pc = "awaiting" /\ pc' # "awaiting"

\* C24: a bad turn never disables the session: whatever way the earlier
\* process_message calls ended, the next one issues a model request that
\* carries the transcript; building the request from the stored transcript
\* never fails because of a message appended in an earlier turn.
C24_NextCallStillRequests ==
    [][LoopAtRequestStep =>
           /\ RequestStep
           /\ sent' = HistoryToDicts(conversation_history).v]_vars

====
